---------------------------- MODULE Spec2Model ----------------------------
(***************************************************************************)
(* Model of the two AsyncRateLimiter classes of data-for-seo:              *)
(*   - tools/rate_limiter.py       (semaphore + lock, "rate_limiter")      *)
(*   - tools/dataforseo_client.py  (lock only,        "dataforseo_client") *)
(*                                                                         *)
(* Time.  The code stores datetime stamps and only ever uses them through  *)
(* the difference now - req_time.  The model stores that difference (the   *)
(* age of the stamp, in whole seconds) and lets Tick add one second to     *)
(* every stored age.  An age at or beyond time_window behaves the same for *)
(* every comparison the code makes, so ages saturate at AgeCap; this keeps *)
(* the state space finite while the clock advances for ever.               *)
(*                                                                         *)
(* Scheduling.  asyncio is cooperative: code between two awaits runs       *)
(* atomically.  Every await of acquire() is a position of pc; the code     *)
(* between two awaits is one action.                                       *)
(***************************************************************************)
EXTENDS Integers, Sequences, FiniteSets

\* ---- bounds of the model ----
NumCallers == 3
MaxRequestsBound == 2
MaxWindowBound == 2

Callers == 1..NumCallers
Limiters == {"rate_limiter", "dataforseo_client"}
\* constructor arguments tried by CtorInit: non-positive ones included
CtorArgsRequests == (0 - 1)..MaxRequestsBound
CtorArgsWindow == (0 - 1)..MaxWindowBound

VARIABLES
    limiter,        \* which class was instantiated
    ctor,           \* outcome of __init__: "constructed" or the exception raised
    max_requests,   \* self.max_requests
    time_window,    \* self.time_window
    requests,       \* self.requests, as the sequence of ages now - req_time
    semaphore,      \* self.semaphore._value (rate_limiter only)
    lock,           \* self._lock: 0 when free, else the caller holding it
    pc,             \* per caller: the await of acquire() it is suspended at
    wake_in,        \* per caller: seconds left of its asyncio.sleep
    admitted,       \* history: ages of the admissions of the trailing time_window
    sleepLog,       \* history: self.requests when the current sleeper went to sleep
    eligible,       \* history: the observed caller is inside an acquire() that it
                    \* invoked while the window was below the budget
    admissions,     \* history: number of acquire() calls admitted so far,
                    \* saturating at max_requests + 1
    promised,       \* history: the observed caller is inside an acquire() that it
                    \* invoked when the wait of get_time_until_next_slot() had
                    \* elapsed, and nobody was admitted since
    lastOp,         \* history: the call that the last step ended (admitted,
                    \* cancelled, raised, or a read), "none" for any other step
    ret,            \* return value of the last read-only operation
    \* DataForSEOClient (tools/dataforseo_client.py)
    session,        \* self.session is set (inside the async context manager)
    max_retries,    \* self.settings.max_retries
    mr_pc,          \* per caller: where its make_request() is suspended
    retry_count,    \* per caller: retry_count of its innermost make_request()
                    \* (0 when it has no call in flight)
    backoff,        \* per caller: seconds left of asyncio.sleep(2 ** retry_count)
    response,       \* per caller: the response its HTTP attempt got, until handled
    attempts,       \* history, per caller: HTTP attempts of its top-level call
                    \* in flight
    outcome,        \* per caller: how its last top-level call ended
    credit,         \* history: admitted acquire() calls of make_request minus
                    \* HTTP attempts started
    \* WorkflowEngine (workflows/workflow_engine.py)
    engine,         \* "constructed" when the behaviour is about an engine
    now,            \* the clock datetime.utcnow() reads
    status,         \* self.status
    started_at,     \* self.started_at (None: -1)
    completed_at,   \* self.completed_at (None: -1)
    final_result,   \* self.final_result (None: NoResult)
    returned,       \* what the last execute() returned (NoResult: not yet)
    impl_calls,     \* history: invocations of execute_workflow by the current
                    \* _execute_workflow_impl
    steps_run,      \* steps the current execute_workflow has run
    total_steps,    \* self.progress.total_steps (progress None: -1)
    completed_steps,      \* self.progress.completed_steps
    progress_percentage,  \* self.progress.progress_percentage
    wf_max_retries, \* self.max_retries
    wf_pc,          \* where execute() is suspended
    wf_retry_count, \* retry_count of _execute_workflow_impl
    control,        \* the last control operation and what it returned
    \* BaseSEOAgent.execute_task on one SEOTask (agents/base.py, models/base.py)
    agent,          \* "constructed" when the behaviour is about an agent
    supported,      \* the task's type is one the agent supports
    task_clock,     \* the clock datetime.utcnow() reads
    task_status,    \* task.status
    task_started_at,    \* task.started_at (None: -1)
    task_completed_at,  \* task.completed_at (None: -1)
    task_result,    \* task.result (None: NoTaskResult)
    et_pc,          \* where execute_task() is suspended
    et_start_time,  \* start_time of the execute_task() in flight
    et_returned,    \* what the last execute_task() returned (NoTaskResult: not
                    \* yet)
    coordinator,    \* "constructed" once there is an AgentCoordinator
    encodable,      \* whether json.dumps accepts a task's or result's model_dump()
    running,        \* self.running of the coordinator's task processor
    active_workflows,   \* the keys of self.active_workflows
    results,        \* workflow["results"] of each workflow: <<task, success>> pairs
    processing_tasks,   \* the workflows that hold the key "processing_tasks"
    task_queue,     \* the sorted set of TaskQueue: the entries not yet dequeued
    channel,        \* the "task_completed" messages published and not yet handled
    current_task    \* the task _process_task() is working on (NoTask: none)

\* the variables of the rate limiters
limiterVars == <<limiter, ctor, max_requests, time_window, requests, semaphore,
                 lock, pc, wake_in, admitted, sleepLog, eligible, admissions,
                 promised, lastOp, ret>>

\* the variables of DataForSEOClient.make_request, but for backoff
requestVars == <<session, max_retries, mr_pc, retry_count, response, attempts,
                 outcome, credit>>

\* the variables of WorkflowEngine
engineVars == <<engine, now, status, started_at, completed_at, final_result,
                returned, impl_calls, steps_run, total_steps, completed_steps,
                progress_percentage, wf_max_retries, wf_pc, wf_retry_count,
                control>>

\* the variables of an agent and its task
agentVars == <<agent, supported, task_clock, task_status, task_started_at,
               task_completed_at, task_result, et_pc, et_start_time, et_returned>>

\* what no step of a rate limiter's acquire() touches
\* the variables of AgentCoordinator, its task queue and its message bus
coordVars == <<coordinator, encodable, running, active_workflows, results,
               processing_tasks, task_queue, channel, current_task>>

beyond == <<requestVars, backoff, engineVars, agentVars, coordVars>>

vars == <<limiterVars, beyond>>

config == <<limiter, ctor, max_requests, time_window>>

\* ---- helpers ----
Max(a, b) == IF a >= b THEN a ELSE b

RECURSIVE SeqMax(_)
SeqMax(s) == IF Len(s) = 1 THEN s[1] ELSE Max(s[1], SeqMax(Tail(s)))

\* ages saturate here (see the header)
AgeCap == IF time_window > 0 THEN time_window ELSE 0

Older(a) == IF a < AgeCap THEN a + 1 ELSE a

Aged(log) == [i \in DOMAIN log |-> Older(log[i])]

\* The callers run the same code, so what holds of one caller's calls holds of
\* every caller's: the history of a call is kept for one of them.
Observed == CHOOSE c \in Callers : TRUE

\* eligible after caller c invokes acquire()
CalledBy(c) == IF c = Observed THEN Len(admitted) < max_requests ELSE eligible

\* eligible after caller c's acquire() ends (returns, raises or is cancelled)
EndedBy(c) == IF c = Observed THEN FALSE ELSE eligible

\* the admission history after one more admission at this instant
Admit(history) == SelectSeq(Append(history, 0), LAMBDA age : age < time_window)

\* admissions after one more admission
Counted(n) == IF n <= max_requests THEN n + 1 ELSE n

\* ---- pure parts of the code ----

\* alternative to EmptyRequests (the log starts with an entry)
StaleRequests == <<0>>

\* rate_limiter.py:21 / dataforseo_client.py:48  self.requests = []
EmptyRequests == <<>>

\* alternative to Record (the stamp is inserted at the front)
RecordFront(log) == <<0>> \o log

\* alternative to Record (the stamp is appended twice)
RecordTwice(log) == Append(Append(log, 0), 0)

\* rate_limiter.py:50 / dataforseo_client.py:72  self.requests.append(now):
\* the age of now is 0
Record(log) == Append(log, 0)

\* alternative to Release (the permit is not given back)
ReleaseLost(v) == v

\* alternative to Release (the permit is given back twice)
ReleaseTwice(v) == v + 2

\* rate_limiter.py:41 / :53  self.semaphore.release()
Release(v) == v + 1

\* alternative to LockFree (the section is entered whoever holds the lock)
LockIgnored == TRUE

\* rate_limiter.py:29 / dataforseo_client.py:53  async with self._lock: the
\* block is entered when nobody holds the lock
LockFree == lock = 0

\* alternative to Prune (a stamp exactly time_window old is kept)
PruneInclusive(log) == SelectSeq(log, LAMBDA age : age <= time_window)

\* rate_limiter.py:33-34 / :46-47  keep req_time > now - time_window
\* dataforseo_client.py:56-59      keep now - req_time < time_window
Prune(log) == SelectSeq(log, LAMBDA age : age < time_window)

\* alternative to AtLimit (off by one in the comparison)
AtLimitStrict(log) == Len(log) > max_requests

\* alternative to AtLimit (the limit is reached one request early)
AtLimitEarly(log) == Len(log) > 0 /\ Len(log) >= max_requests - 1

\* rate_limiter.py:37 / dataforseo_client.py:62
AtLimit(log) == Len(log) >= max_requests

\* alternative to sleep_time (sleeps one second too little)
sleep_time_short(log) == time_window - log[1] - 1

\* rate_limiter.py:38-39  oldest_request = self.requests[0]
sleep_time(log) == time_window - log[1]

\* dataforseo_client.py:64-65  oldest_request = min(self.requests): the largest age
wait_time(log) == time_window - SeqMax(log)

\* rate_limiter.py:55-60
get_current_usage == Len(SelectSeq(requests, LAMBDA age : age < time_window))

\* alternative to get_time_until_next_slot (looks at the newest entry)
get_time_until_next_slot_newest ==
    IF Len(requests) < max_requests THEN 0
    ELSE Max(0, time_window - requests[Len(requests)])

\* rate_limiter.py:62-70 (requests[0] on an empty list raises IndexError: -1).
\* A stored age saturates at time_window, where max(0.0, ...) is 0 as for any
\* larger age.
get_time_until_next_slot ==
    IF Len(requests) < max_requests THEN 0
    ELSE IF requests = <<>> THEN 0 - 1
    ELSE Max(0, time_window - requests[1])

\* the log is full and get_time_until_next_slot() is down to 0: the limiter
\* was at capacity when its newest entry was recorded, the wait that
\* get_time_until_next_slot() returned then has elapsed, and nobody was
\* admitted since
SlotDue ==
    /\ limiter = "rate_limiter"
    /\ max_requests > 0
    /\ Len(requests) = max_requests
    /\ get_time_until_next_slot = 0

\* ---- construction ----

\* rate_limiter.py:12-23 and dataforseo_client.py:39-49: neither validates its
\* arguments; asyncio.Semaphore(value) raises ValueError for value < 0.
Construct(cls, m, w) ==
    /\ limiter = cls
    /\ max_requests = m
    /\ time_window = w
    /\ ctor = IF cls = "rate_limiter" /\ m < 0 THEN "ValueError" ELSE "constructed"
    /\ requests = EmptyRequests
    /\ semaphore = IF cls = "rate_limiter" /\ m >= 0 THEN m ELSE 0
    /\ lock = 0
    /\ pc = [c \in Callers |-> "idle"]
    /\ wake_in = [c \in Callers |-> 0]
    /\ admitted = <<>>
    /\ sleepLog = <<>>
    /\ eligible = FALSE
    /\ admissions = 0
    /\ promised = FALSE
    /\ lastOp = "none"
    /\ ret = 0

\* no response at hand
NoResponse ==
    [transport |-> "none", status |-> 0, json |-> FALSE, dict |-> FALSE,
     status_code |-> 0]

\* dataforseo_client.py:85-98 with settings.max_retries = r; the session is
\* set between __aenter__ (102) and __aexit__ (112)
ClientConstruct(r, entered) ==
    /\ session = entered
    /\ max_retries = r
    /\ mr_pc = [c \in Callers |-> "idle"]
    /\ retry_count = [c \in Callers |-> 0]
    /\ backoff = [c \in Callers |-> 0]
    /\ response = [c \in Callers |-> NoResponse]
    /\ attempts = [c \in Callers |-> 0]
    /\ outcome = [c \in Callers |-> "none"]
    /\ credit = 0

\* a limiter on its own: no client around it
NoClient == ClientConstruct(0, FALSE)

None == 0 - 1

\* no ExecutionResult
NoResult == [success |-> FALSE, why |-> "none"]

\* workflow_engine.py:72-96 with config["max_retries"] = r
EngineConstruct(cls, r) ==
    /\ engine = cls
    /\ now = 0
    /\ status = "PENDING"
    /\ started_at = None
    /\ completed_at = None
    /\ final_result = NoResult
    /\ returned = NoResult
    /\ impl_calls = 0
    /\ steps_run = 0
    /\ total_steps = None
    /\ completed_steps = 0
    /\ progress_percentage = 0
    /\ wf_max_retries = r
    /\ wf_pc = "idle"
    /\ wf_retry_count = 0
    /\ control = [op |-> "none", ret |-> FALSE]

\* no workflow engine in the behaviour
NoEngine == EngineConstruct("none", 0)

\* no ExecutionResult of a task
NoTaskResult == [success |-> FALSE, why |-> "none", execution_time |-> None]

\* an agent (agents/base.py:19-34) and a task as SEOTask constructs it
\* (models/base.py:85-123: status PENDING, no stamps, no result)
AgentConstruct(cls, types) ==
    /\ agent = cls
    /\ supported = types
    /\ task_clock = 0
    /\ task_status = "PENDING"
    /\ task_started_at = None
    /\ task_completed_at = None
    /\ task_result = NoTaskResult
    /\ et_pc = "idle"
    /\ et_start_time = 0
    /\ et_returned = NoTaskResult

\* no agent in the behaviour
NoAgent == AgentConstruct("none", FALSE)

NumWorkflows == 3

\* the workflow ids of the behaviour
Workflows == 1..NumWorkflows

\* the task types of create_seo_audit_workflow's four tasks, in their order
CollectionTasks ==
    <<"keyword_research", "serp_analysis", "ranking_data", "competitor_analysis">>

\* the task types of _start_processing_phase's two tasks, in their order
ProcessingTasks == <<"data_analysis", "pattern_recognition">>

\* no task in the task processor's hands
NoTask == [workflow_id |-> 0, task_type |-> "none"]

\* AgentCoordinator.__init__ and initialize(): the handlers are subscribed, no
\* workflow is active, the queue holds nothing and the processor is not running;
\* dumps says whether json.dumps accepts what model_dump() returns
CoordConstruct(cls, dumps) ==
    /\ coordinator = cls
    /\ encodable = dumps
    /\ running = FALSE
    /\ active_workflows = {}
    /\ results = [w \in Workflows |-> {}]
    /\ processing_tasks = {}
    /\ task_queue = {}
    /\ channel = <<>>
    /\ current_task = NoTask

\* no coordinator in the behaviour
NoCoordinator == CoordConstruct("none", FALSE)

\* a limiter constructed as the documentation asks: both arguments positive
Init ==
    /\ \E cls \in Limiters, m \in 1..MaxRequestsBound, w \in 1..MaxWindowBound :
          Construct(cls, m, w)
    /\ NoClient
    /\ NoEngine
    /\ NoAgent
    /\ NoCoordinator

\* a limiter constructed with any arguments
CtorInit ==
    /\ \E cls \in Limiters, m \in CtorArgsRequests, w \in CtorArgsWindow :
          Construct(cls, m, w)
    /\ NoClient
    /\ NoEngine
    /\ NoAgent
    /\ NoCoordinator

\* ---- the clock ----

\* one second passes: every stored stamp is one second older, every sleeper
\* has one second less to sleep
Tick ==
    /\ ctor = "constructed"
    /\ requests' = Aged(requests)
    /\ sleepLog' = Aged(sleepLog)
    /\ admitted' = SelectSeq([i \in DOMAIN admitted |-> admitted[i] + 1],
                             LAMBDA age : age < time_window)
    /\ wake_in' = [c \in Callers |->
                     IF wake_in[c] > 0 THEN wake_in[c] - 1 ELSE 0]
    /\ lastOp' = "none"
    /\ ret' = 0
    /\ backoff' = [c \in Callers |->
                     IF backoff[c] > 0 THEN backoff[c] - 1 ELSE 0]
    /\ UNCHANGED <<config, requestVars, engineVars, agentVars, coordVars, semaphore, lock, pc,
                   eligible, admissions, promised>>

\* ---- acquire() of tools/rate_limiter.py ----

\* a caller invokes acquire() and reaches line 27
AcquireCall(c) ==
    /\ ctor = "constructed"
    /\ limiter = "rate_limiter"
    /\ pc[c] = "idle"
    /\ pc' = [pc EXCEPT ![c] = "semaphore"]
    /\ eligible' = CalledBy(c)
    /\ promised' = IF c = Observed THEN SlotDue ELSE promised
    /\ lastOp' = "none"
    /\ ret' = 0
    /\ UNCHANGED <<config, beyond, requests, semaphore, lock, wake_in, admitted, sleepLog,
                   admissions>>

\* line 27: await self.semaphore.acquire()
SemaphoreAcquire(c) ==
    /\ limiter = "rate_limiter"
    /\ pc[c] = "semaphore"
    /\ semaphore > 0
    /\ semaphore' = semaphore - 1
    /\ pc' = [pc EXCEPT ![c] = "lock"]
    /\ lastOp' = "none"
    /\ ret' = 0
    /\ UNCHANGED <<config, beyond, requests, lock, wake_in, admitted, sleepLog, eligible,
                   admissions, promised>>

\* lines 29-42 (sleep) or 29-53 (no sleep): the lock is taken, the log pruned
\* and the limit tested; at the limit the permit is released and the caller
\* sleeps inside the async with block, otherwise it records now and returns
LockedSection(c) ==
    /\ limiter = "rate_limiter"
    /\ pc[c] = "lock"
    /\ LockFree
    /\ LET pruned == Prune(requests) IN
       IF AtLimit(pruned) /\ sleep_time(pruned) > 0
       THEN /\ requests' = pruned
            /\ semaphore' = Release(semaphore)
            /\ lock' = c
            /\ pc' = [pc EXCEPT ![c] = "sleep"]
            /\ wake_in' = [wake_in EXCEPT ![c] = sleep_time(pruned)]
            /\ sleepLog' = pruned
            /\ lastOp' = "none"
            /\ UNCHANGED <<admitted, eligible, admissions, promised>>
       ELSE /\ requests' = Record(pruned)
            /\ admitted' = Admit(admitted)
            /\ admissions' = Counted(admissions)
            /\ promised' = FALSE
            /\ semaphore' = Release(semaphore)
            /\ lock' = 0
            /\ pc' = [pc EXCEPT ![c] = "idle"]
            /\ eligible' = EndedBy(c)
            /\ lastOp' = "admit"
            /\ UNCHANGED <<wake_in, sleepLog>>
    /\ ret' = 0
    /\ UNCHANGED <<config, beyond>>

\* line 42 -> 43: asyncio.sleep(sleep_time) is over
SleepDone(c) ==
    /\ limiter = "rate_limiter"
    /\ pc[c] = "sleep"
    /\ wake_in[c] = 0
    /\ pc' = [pc EXCEPT ![c] = "reacquire"]
    /\ lastOp' = "none"
    /\ ret' = 0
    /\ UNCHANGED <<config, beyond, requests, semaphore, lock, wake_in, admitted, sleepLog,
                   eligible, admissions, promised>>

\* alternative to SemaphoreReacquire (the caller returns without recording now)
SemaphoreReacquireUnrecorded(c) ==
    /\ limiter = "rate_limiter"
    /\ pc[c] = "reacquire"
    /\ semaphore > 0
    /\ requests' = Prune(requests)
    /\ lock' = 0
    /\ pc' = [pc EXCEPT ![c] = "idle"]
    /\ eligible' = EndedBy(c)
    /\ promised' = FALSE
    /\ lastOp' = "admit_after_sleep"
    /\ ret' = 0
    /\ sleepLog' = <<>>
    /\ UNCHANGED <<config, beyond, semaphore, wake_in, admitted, admissions>>

\* lines 43-53: the permit is taken again, the log pruned again, now recorded
\* without a second test of the limit, lock and permit released
SemaphoreReacquire(c) ==
    /\ limiter = "rate_limiter"
    /\ pc[c] = "reacquire"
    /\ semaphore > 0
    /\ requests' = Record(Prune(requests))
    /\ admitted' = Admit(admitted)
    /\ admissions' = Counted(admissions)
    /\ promised' = FALSE
    /\ lock' = 0
    /\ pc' = [pc EXCEPT ![c] = "idle"]
    /\ eligible' = EndedBy(c)
    /\ lastOp' = "admit_after_sleep"
    /\ ret' = 0
    /\ sleepLog' = <<>>
    /\ UNCHANGED <<config, beyond, semaphore, wake_in>>

\* ---- acquire() of the AsyncRateLimiter of tools/dataforseo_client.py ----

\* a caller invokes acquire() and reaches the async with of line 53
ClientAcquireCallCore(c) ==
    /\ ctor = "constructed"
    /\ limiter = "dataforseo_client"
    /\ pc[c] = "idle"
    /\ pc' = [pc EXCEPT ![c] = "lock"]
    /\ eligible' = CalledBy(c)
    /\ lastOp' = "none"
    /\ ret' = 0
    /\ UNCHANGED <<config, requests, semaphore, lock, wake_in, admitted, sleepLog,
                   admissions, promised>>

ClientAcquireCall(c) ==
    /\ ClientAcquireCallCore(c)
    /\ UNCHANGED beyond

\* lines 53-68 (sleep) or 53-72 (no sleep): the lock is taken, the log pruned
\* and the limit tested; at the limit the caller sleeps inside the async with
\* block, otherwise it records now and returns.  min() of an empty list
\* raises ValueError, which leaves the async with block and acquire().
ClientLockedSectionCore(c) ==
    /\ limiter = "dataforseo_client"
    /\ pc[c] = "lock"
    /\ LockFree
    /\ LET pruned == Prune(requests) IN
       IF AtLimit(pruned) /\ pruned = <<>>
       THEN /\ requests' = pruned
            /\ lock' = 0
            /\ pc' = [pc EXCEPT ![c] = "idle"]
            /\ eligible' = EndedBy(c)
            /\ lastOp' = "ValueError"
            /\ UNCHANGED <<admitted, wake_in, sleepLog, admissions, promised>>
       ELSE IF AtLimit(pruned) /\ wait_time(pruned) > 0
       THEN /\ requests' = pruned
            /\ lock' = c
            /\ pc' = [pc EXCEPT ![c] = "sleep"]
            /\ wake_in' = [wake_in EXCEPT ![c] = wait_time(pruned)]
            /\ sleepLog' = pruned
            /\ lastOp' = "none"
            /\ UNCHANGED <<admitted, eligible, admissions, promised>>
       ELSE /\ requests' = Record(pruned)
            /\ admitted' = Admit(admitted)
            /\ admissions' = Counted(admissions)
            /\ promised' = FALSE
            /\ lock' = 0
            /\ pc' = [pc EXCEPT ![c] = "idle"]
            /\ eligible' = EndedBy(c)
            /\ lastOp' = "admit"
            /\ UNCHANGED <<wake_in, sleepLog>>
    /\ ret' = 0
    /\ UNCHANGED <<config, semaphore>>

ClientLockedSection(c) ==
    /\ ClientLockedSectionCore(c)
    /\ UNCHANGED beyond

\* line 68 -> 69 -> 53: the sleep is over and the caller calls self.acquire()
\* again from inside the async with block: it waits for the lock at line 53
\* while the enclosing frame still holds it
ClientSleepDone(c) ==
    /\ limiter = "dataforseo_client"
    /\ pc[c] = "sleep"
    /\ wake_in[c] = 0
    /\ pc' = [pc EXCEPT ![c] = "lock"]
    /\ lastOp' = "none"
    /\ ret' = 0
    /\ UNCHANGED <<config, beyond, requests, semaphore, lock, wake_in, admitted, sleepLog,
                   eligible, admissions, promised>>

\* ---- cancellation ----

\* alternative to Cancel (the lock is not released on unwinding)
CancelKeepsLock(c) ==
    /\ pc[c] # "idle"
    /\ pc' = [pc EXCEPT ![c] = "idle"]
    /\ wake_in' = [wake_in EXCEPT ![c] = 0]
    /\ eligible' = EndedBy(c)
    /\ promised' = IF c = Observed THEN FALSE ELSE promised
    /\ lastOp' = "cancel_" \o pc[c]
    /\ ret' = 0
    /\ UNCHANGED <<config, beyond, requests, semaphore, lock, admitted, sleepLog,
                   admissions>>

\* the task running acquire() is cancelled at the await it is suspended at:
\* CancelledError unwinds acquire(); an async with block that was entered
\* releases the lock (rate_limiter.py:29, dataforseo_client.py:53); nothing
\* else runs, in particular not the release of rate_limiter.py:53
Cancel(c) ==
    /\ pc[c] # "idle"
    /\ pc' = [pc EXCEPT ![c] = "idle"]
    /\ lock' = IF lock = c THEN 0 ELSE lock
    /\ wake_in' = [wake_in EXCEPT ![c] = 0]
    /\ eligible' = EndedBy(c)
    /\ promised' = IF c = Observed THEN FALSE ELSE promised
    /\ lastOp' = "cancel_" \o pc[c]
    /\ ret' = 0
    /\ UNCHANGED <<config, beyond, requests, semaphore, admitted, sleepLog, admissions>>

\* ---- read-only operations of tools/rate_limiter.py ----

\* alternative to GetCurrentUsage (stores the filtered list back)
GetCurrentUsagePruning ==
    /\ ctor = "constructed"
    /\ limiter = "rate_limiter"
    /\ ret' = get_current_usage
    /\ requests' = Prune(requests)
    /\ lastOp' = "get_current_usage"
    /\ UNCHANGED <<config, beyond, semaphore, lock, pc, wake_in, admitted,
                   sleepLog, eligible, admissions, promised>>

\* rate_limiter.py:55-60
GetCurrentUsage ==
    /\ ctor = "constructed"
    /\ limiter = "rate_limiter"
    /\ ret' = get_current_usage
    /\ lastOp' = "get_current_usage"
    /\ UNCHANGED <<config, beyond, requests, semaphore, lock, pc, wake_in, admitted,
                   sleepLog, eligible, admissions, promised>>

\* rate_limiter.py:62-70
GetTimeUntilNextSlot ==
    /\ ctor = "constructed"
    /\ limiter = "rate_limiter"
    /\ ret' = get_time_until_next_slot
    /\ lastOp' = "get_time_until_next_slot"
    /\ UNCHANGED <<config, beyond, requests, semaphore, lock, pc, wake_in, admitted,
                   sleepLog, eligible, admissions, promised>>

\* ---- specifications ----

\* the steps of acquire() and the clock
Step ==
    \/ Tick
    \/ \E c \in Callers : AcquireCall(c)
    \/ \E c \in Callers : SemaphoreAcquire(c)
    \/ \E c \in Callers : LockedSection(c)
    \/ \E c \in Callers : SleepDone(c)
    \/ \E c \in Callers : SemaphoreReacquire(c)
    \/ \E c \in Callers : ClientAcquireCall(c)
    \/ \E c \in Callers : ClientLockedSection(c)
    \/ \E c \in Callers : ClientSleepDone(c)

Next ==
    \/ Step
    \/ \E c \in Callers : Cancel(c)
    \/ GetCurrentUsage
    \/ GetTimeUntilNextSlot

\* any interleaving of callers, clock, cancellations and reads on a limiter
\* constructed with positive arguments
Spec == Init /\ [][Next]_vars

\* the same on a limiter constructed with any arguments
CtorSpec == CtorInit /\ [][Next]_vars

\* no cancellation; the clock keeps advancing; the event loop runs every task
\* that can run, and wakes the waiters of a semaphore or lock in turn, so a
\* waiter that can proceed again and again does proceed
Fairness ==
    /\ WF_vars(Tick)
    /\ \A c \in Callers :
        /\ SF_vars(SemaphoreAcquire(c))
        /\ SF_vars(LockedSection(c))
        /\ WF_vars(SleepDone(c))
        /\ SF_vars(SemaphoreReacquire(c))
        /\ SF_vars(ClientLockedSection(c))
        /\ WF_vars(ClientSleepDone(c))

LiveSpec == Init /\ [][Step]_vars /\ Fairness

\* one caller alone issues its calls of acquire() one after the other
\* (tests/tools/test_rate_limiter.py, test_rate_limiting)
SoloStep ==
    \/ Tick
    \/ AcquireCall(Observed)
    \/ SemaphoreAcquire(Observed)
    \/ LockedSection(Observed)
    \/ SleepDone(Observed)
    \/ SemaphoreReacquire(Observed)
    \/ ClientAcquireCall(Observed)
    \/ ClientLockedSection(Observed)
    \/ ClientSleepDone(Observed)

\* the clock keeps advancing and the event loop runs the caller when it can run
SoloFairness ==
    /\ WF_vars(Tick)
    /\ WF_vars(SemaphoreAcquire(Observed))
    /\ WF_vars(LockedSection(Observed))
    /\ WF_vars(SleepDone(Observed))
    /\ WF_vars(SemaphoreReacquire(Observed))
    /\ WF_vars(ClientLockedSection(Observed))
    /\ WF_vars(ClientSleepDone(Observed))

SoloSpec == Init /\ [][SoloStep]_vars /\ SoloFairness


\* ---- the claims ----

CancelOps == {"cancel_semaphore", "cancel_lock", "cancel_sleep", "cancel_reacquire"}

\* C1  Budget invariant, both limiters: at every instant the number of
\* acquire() calls admitted within the trailing time_window is at most
\* max_requests, under any interleaving of callers, clock and cancellations.
BudgetInvariant == Len(admitted) <= max_requests

\* C1 witness: the window is full right after a caller that had slept was
\* admitted, while another caller is inside acquire()
BudgetWitness ==
    /\ lastOp = "admit_after_sleep"
    /\ Len(admitted) = max_requests
    /\ max_requests > 1
    /\ \E c \in Callers : pc[c] \in {"semaphore", "lock"}

\* C2  Liveness of tools/rate_limiter.py: with an advancing clock, fair
\* scheduling and no cancellation every call to acquire() eventually returns.
AcquireEventuallyReturns ==
    \A c \in Callers :
        (limiter = "rate_limiter" /\ pc[c] # "idle") ~> (pc[c] = "idle")

\* C3  Liveness of the limiter of tools/dataforseo_client.py: with an
\* advancing clock and no cancellation every call to acquire() eventually
\* returns, also one made when the window holds max_requests entries.
ClientAcquireEventuallyReturns ==
    \A c \in Callers :
        (limiter = "dataforseo_client" /\ pc[c] # "idle") ~> (pc[c] = "idle")

\* C4  In both limiters a caller suspended in the rate-limit sleep does not
\* hold the lock.
SleeperHoldsNoLock == \A c \in Callers : pc[c] = "sleep" => lock # c

\* C5  Constructing a limiter with max_requests <= 0 or time_window <= 0
\* fails at construction, so no acquire() is ever called on it.  (The claim
\* names the error InvalidConfiguration; any exception raised by __init__ is
\* counted as a failure here, so that only a limiter that was constructed
\* refutes it.)
NonPositiveRejected ==
    (max_requests <= 0 \/ time_window <= 0) =>
        /\ ctor \in {"InvalidConfiguration", "ValueError"}
        /\ \A c \in Callers : pc[c] = "idle"

\* C6  tools/rate_limiter.py: a caller cancelled while suspended in the
\* rate-limit sleep has appended no timestamp, the request log is what it was
\* when its sleep began, and the lock it held is free again.
CancelledSleeperLeavesLog ==
    (limiter = "rate_limiter" /\ lastOp = "cancel_sleep") =>
        /\ requests = sleepLog
        /\ lock = 0

\* C6 witness: a sleeper was cancelled while another caller waits for the lock
CancelledSleeperWitness ==
    /\ limiter = "rate_limiter"
    /\ lastOp = "cancel_sleep"
    /\ requests # <<>>
    /\ \E c \in Callers : pc[c] = "lock"

\* C7  tools/rate_limiter.py: in every reachable state get_current_usage()
\* returns a value between 0 and max_requests.
UsageWithinBudget ==
    limiter = "rate_limiter" =>
        /\ 0 <= get_current_usage
        /\ get_current_usage <= max_requests
        /\ lastOp = "get_current_usage" => (0 <= ret /\ ret <= max_requests)

\* C7 witness: get_current_usage() returned max_requests while a caller sleeps
UsageWitness ==
    /\ limiter = "rate_limiter"
    /\ lastOp = "get_current_usage"
    /\ ret = max_requests
    /\ \E c \in Callers : pc[c] = "sleep"

ReadOps == {"get_current_usage", "get_time_until_next_slot"}

\* C8  get_current_usage() and get_time_until_next_slot() leave the stored
\* request log (expired entries included), the lock and the semaphore as
\* they were.
ReadsLeaveStateUnchanged ==
    [][lastOp' \in ReadOps => UNCHANGED <<requests, lock, semaphore>>]_vars

\* C8 witness: get_current_usage() was called on a log that holds expired
\* entries, and counted fewer entries than are stored
ReadsWitness ==
    /\ lastOp = "get_current_usage"
    /\ ret < Len(requests)

\* the windowed definition of the time until the next slot
WindowedNextSlot ==
    IF Len(Prune(requests)) < max_requests THEN 0
    ELSE Max(0, time_window - SeqMax(Prune(requests)))

\* C9  tools/rate_limiter.py: in every reachable state
\* get_time_until_next_slot() is 0 when fewer than max_requests log entries
\* lie in the trailing time_window and otherwise
\* max(0, time_window - (now - oldest entry within the window)); with
\* max_requests entries all inside the window it is > 0 and <= time_window.
NextSlotMatchesWindow ==
    limiter = "rate_limiter" =>
        /\ get_time_until_next_slot = WindowedNextSlot
        /\ lastOp = "get_time_until_next_slot" => ret = WindowedNextSlot
        /\ get_current_usage = max_requests =>
               (0 < get_time_until_next_slot /\ get_time_until_next_slot <= time_window)

\* C9 witness: get_time_until_next_slot() was called on a log of max_requests
\* entries of which not all lie within the window
NextSlotWitness ==
    /\ limiter = "rate_limiter"
    /\ lastOp = "get_time_until_next_slot"
    /\ Len(requests) = max_requests
    /\ 0 < get_current_usage
    /\ get_current_usage < max_requests

\* C10 as stated: a caller that invoked acquire() of tools/rate_limiter.py
\* when fewer than max_requests requests had been admitted within the
\* trailing time_window never executes the rate-limit sleep, whatever other
\* callers are doing.
FastPathAtCall ==
    (limiter = "rate_limiter" /\ eligible) => pc[Observed] \notin {"sleep", "reacquire"}

\* C10 as amended: a caller whose prune-and-check step (rate_limiter.py:29-37)
\* runs when fewer than max_requests requests have been admitted within the
\* trailing time_window is admitted in that same step: it records its
\* timestamp and returns without sleeping and without the clock advancing.
FastPathAtCheck ==
    [][\A c \in Callers :
        ( /\ limiter = "rate_limiter"
          /\ pc[c] = "lock"
          /\ pc'[c] # "lock"
          /\ lastOp' \notin CancelOps
          /\ Len(admitted) < max_requests )
        => ( /\ pc'[c] = "idle"
             /\ lastOp' = "admit"
             /\ requests' = Append(Prune(requests), 0)
             /\ admitted' = Append(admitted, 0) )]_vars

\* C10 witness: a caller was admitted without sleeping, filling the window,
\* while other callers are inside acquire()
FastPathWitness ==
    /\ limiter = "rate_limiter"
    /\ lastOp = "admit"
    /\ Len(admitted) = max_requests
    /\ \E c \in Callers : pc[c] = "lock"
    /\ \E c \in Callers : pc[c] = "semaphore"

\* C11: when the limiter was at capacity and the wait that
\* get_time_until_next_slot() returned has elapsed with no admission in
\* between, an acquire() invoked then does not sleep and is admitted
SlotPromiseKept ==
    /\ [](promised => pc[Observed] \notin {"sleep", "reacquire"})
    /\ (promised ~> ~promised)

Min(a, b) == IF a <= b THEN a ELSE b

\* C12: after N calls of acquire() have returned, all admitted within one
\* time_window that has not ended yet, get_current_usage() is
\* min(N, max_requests): every admitted call counts once
NoDoubleCounting ==
    (limiter = "rate_limiter" /\ Len(admitted) = admissions)
        => /\ get_current_usage = Min(admissions, max_requests)
           /\ lastOp = "get_current_usage" => ret = Min(admissions, max_requests)

NoDoubleCountingWitness ==
    /\ limiter = "rate_limiter"
    /\ max_requests > 1
    /\ admissions = max_requests
    /\ Len(admitted) = admissions
    /\ lastOp = "get_current_usage"
    /\ ret = max_requests

\* C13: when a single caller issues its calls one after the other on a fresh
\* limiter, the first max_requests calls are admitted without sleeping, call
\* number max_requests + 1 is admitted when the first admission is at least
\* time_window old, and every call returns
ThrottledCallReturns ==
    /\ [][ limiter = "rate_limiter" =>
             /\ (admissions < max_requests /\ admissions' = admissions + 1)
                    => lastOp' = "admit"
             /\ (admissions = max_requests /\ admissions' = max_requests + 1)
                    => Len(admitted) < max_requests ]_vars
    /\ (limiter = "rate_limiter" /\ pc[Observed] # "idle")
           ~> (pc[Observed] = "idle")

\* the call after max_requests admissions has slept and returned
ThrottledCallWitness ==
    /\ limiter = "rate_limiter"
    /\ admissions = max_requests + 1
    /\ max_requests > 1
    /\ lastOp = "admit_after_sleep"
    /\ Len(admitted) = 1

\* every admission so far was made at the present instant t0
BurstInstant ==
    /\ limiter = "rate_limiter"
    /\ admissions = Len(admitted)
    /\ \A i \in DOMAIN admitted : admitted[i] = 0

\* the callers inside acquire()
Pending == {c \in Callers : pc[c] # "idle"}

\* caller c can go on without the clock advancing
Runnable(c) ==
    ENABLED (SemaphoreAcquire(c) \/ LockedSection(c) \/ SleepDone(c)
                \/ SemaphoreReacquire(c))

\* C14: when more than max_requests callers invoke acquire() at one instant
\* t0 on a fresh limiter, exactly max_requests of them are admitted at t0 (the
\* others cannot go on before the clock advances), and nobody else is
\* admitted before t0 + time_window
BurstFillsBudget ==
    /\ [](BurstInstant =>
            /\ admissions <= max_requests
            /\ (Pending # {} /\ \A c \in Pending : ~Runnable(c))
                   => admissions = max_requests)
    /\ [][ ( /\ limiter = "rate_limiter"
             /\ Len(admitted) = max_requests
             /\ \A i \in DOMAIN admitted : admitted[i] = admitted[1] )
           => lastOp' \notin {"admit", "admit_after_sleep"} ]_vars

\* max_requests callers were admitted at t0, the others wait for the clock
BurstWitness ==
    /\ BurstInstant
    /\ max_requests > 1
    /\ admissions = max_requests
    /\ Cardinality(Pending) = NumCallers - max_requests
    /\ \A c \in Pending : ~Runnable(c)
    /\ \E c \in Pending : pc[c] = "sleep" /\ wake_in[c] = time_window

\* number of stamps of the present instant in a log
Fresh(log) == Len(SelectSeq(log, LAMBDA age : age = 0))

\* number of stamps a step appends to self.requests (the clock's step turns
\* fresh stamps into older ones and appends none)
Appended == Max(0, Fresh(requests') - Fresh(requests))

\* caller c's acquire() returns in this step
Returns(c) ==
    /\ pc[c] # "idle"
    /\ pc'[c] = "idle"
    /\ lastOp' \in {"admit", "admit_after_sleep"}

\* C15: every step in which an acquire() returns appends exactly one stamp to
\* the log, also when the caller has slept, and no other step appends any:
\* as many stamps are appended as calls are admitted
OneStampPerAdmission ==
    [][ IF \E c \in Callers : Returns(c) THEN Appended = 1 ELSE Appended = 0 ]_vars

\* a caller that slept has returned and left one stamp of this instant
OneStampWitness ==
    /\ lastOp = "admit_after_sleep"
    /\ Fresh(requests) = 1
    /\ Len(requests) = max_requests
    /\ max_requests > 1

\* caller c is inside the async with self._lock block
Inside(c) == pc[c] \in {"sleep", "reacquire"} \/ lock = c

\* C16: at most one caller at a time is inside the prune/check/append
\* section, it holds the lock there, and every step that changes the log is a
\* step of the caller that holds the lock or takes the free lock in that step
LogMutatedUnderLock ==
    /\ [](/\ Cardinality({c \in Callers : Inside(c)}) <= 1
          /\ \A c \in Callers : pc[c] \in {"sleep", "reacquire"} => lock = c)
    /\ [][ (requests' # requests /\ requests' # Aged(requests))
           => \E c \in Callers :
                 /\ pc'[c] # pc[c]
                 /\ lock = c \/ (lock = 0 /\ pc[c] = "lock") ]_vars

\* the lock holder has just changed the log while another caller waits for
\* the lock
LogMutatedWitness ==
    /\ lastOp = "admit_after_sleep"
    /\ \E c \in Callers : pc[c] = "lock"

\* C17: the stamps of self.requests are in non-decreasing order of time, so
\* their ages never increase along the list and requests[0] is an oldest one
LogOrdered ==
    limiter = "rate_limiter" =>
        \A i, j \in DOMAIN requests : i < j => requests[i] >= requests[j]

\* a log holding stamps of different instants, the last appended after a sleep
LogOrderedWitness ==
    /\ limiter = "rate_limiter"
    /\ lastOp = "admit_after_sleep"
    /\ Len(requests) > 1
    /\ requests[1] > requests[Len(requests)]

\* caller c runs a pruning pass in this step: it enters the locked section, or
\* goes on after its sleep in rate_limiter.py
Prunes(c) ==
    /\ pc'[c] # pc[c]
    /\ lastOp' \notin CancelOps
    /\ \/ pc[c] = "lock" /\ lock = 0
       \/ pc[c] = "reacquire"

\* C18: right after a pruning pass the log holds no stamp as old as
\* time_window and holds every stamp it held before that is younger, in the
\* same order (followed by the new stamp when the caller is admitted in the
\* same step)
PruneExact ==
    [][ \A c \in Callers : Prunes(c) =>
          LET kept == SelectSeq(requests, LAMBDA age : age < time_window) IN
            /\ \A i \in DOMAIN requests' : requests'[i] < time_window
            /\ requests' \in {kept, Append(kept, 0)} ]_vars

\* a pruning pass has dropped an expired stamp and kept a younger one
PruneExactWitness ==
    /\ lastOp = "admit_after_sleep"
    /\ sleepLog = <<>>
    /\ Len(requests) > 1
    /\ Len(requests) = max_requests
    /\ admissions = max_requests + 1

\* C19: as long as no acquire() has been admitted the log is empty, and
\* get_current_usage() and get_time_until_next_slot() are 0, whatever time
\* has passed and whatever callers are inside acquire()
FreshLimiterEmpty ==
    admissions = 0 =>
        /\ requests = <<>>
        /\ limiter = "rate_limiter" =>
              /\ get_current_usage = 0
              /\ get_time_until_next_slot = 0
              /\ lastOp \in ReadOps => ret = 0

\* a read on a limiter that has admitted nobody yet, with a caller inside
\* acquire()
FreshLimiterWitness ==
    /\ admissions = 0
    /\ lastOp = "get_time_until_next_slot"
    /\ ret = 0
    /\ \E c \in Callers : pc[c] = "lock"

BoundedAcquireCall(c) ==
    /\ Cardinality(Pending) < max_requests
    /\ AcquireCall(c)

BoundedStep ==
    \/ Tick
    \/ \E c \in Callers : BoundedAcquireCall(c)
    \/ \E c \in Callers : SemaphoreAcquire(c)
    \/ \E c \in Callers : LockedSection(c)
    \/ \E c \in Callers : SleepDone(c)
    \/ \E c \in Callers : SemaphoreReacquire(c)

\* no cancellation; the clock keeps advancing; the event loop runs every task
\* that stays able to run, and hands the lock to its waiters in turn
BoundedFairness ==
    /\ WF_vars(Tick)
    /\ \A c \in Callers :
        /\ WF_vars(SemaphoreAcquire(c))
        /\ SF_vars(LockedSection(c))
        /\ WF_vars(SleepDone(c))
        /\ WF_vars(SemaphoreReacquire(c))

BoundedSpec == Init /\ [][BoundedStep]_vars /\ BoundedFairness

\* C21: when at most max_requests calls of acquire() are in flight at any
\* time, a caller waking from its sleep finds a permit to take, and every
\* call returns
BoundedCallsReturn ==
    /\ [](\A c \in Callers : pc[c] = "reacquire" => semaphore > 0)
    /\ \A c \in Callers : (pc[c] # "idle") ~> (pc[c] = "idle")

\* max_requests calls in flight, one of them waking from its sleep while the
\* others hold a permit and wait for the lock
BoundedCallsWitness ==
    /\ limiter = "rate_limiter"
    /\ max_requests > 1
    /\ Cardinality(Pending) = max_requests
    /\ \E c \in Callers : pc[c] = "reacquire"
    /\ \E c \in Callers : pc[c] = "lock"

\* caller c is suspended at an await of acquire() of tools/rate_limiter.py
\* that cannot complete now
Suspended(c) ==
    \/ pc[c] = "semaphore" /\ semaphore = 0
    \/ pc[c] = "lock" /\ lock # 0
    \/ pc[c] = "sleep"
    \/ pc[c] = "reacquire" /\ semaphore = 0

\* permits caller c holds: the one of line 27, until line 41 or line 53
PermitsHeld(c) == IF pc[c] = "lock" THEN 1 ELSE 0

\* C22: a caller of tools/rate_limiter.py that is cancelled while suspended
\* in acquire() gives back the permits it took
CancelGivesPermitsBack ==
    [][ limiter = "rate_limiter" =>
          \A c \in Callers :
              (Suspended(c) /\ pc'[c] = "idle" /\ lastOp' \in CancelOps)
                  => semaphore' = semaphore + PermitsHeld(c) ]_vars

\* the callers holding a permit
PermitHolders == {c \in Callers : PermitsHeld(c) = 1}

\* C23: without cancellation the semaphore value of tools/rate_limiter.py is
\* max_requests minus the number of callers holding a permit, and lies in
\* 0..max_requests
SemaphoreBounds ==
    limiter = "rate_limiter" =>
        /\ semaphore >= 0
        /\ semaphore <= max_requests
        /\ semaphore = max_requests - Cardinality(PermitHolders)

\* every permit is taken while a caller sleeps
SemaphoreBoundsWitness ==
    /\ limiter = "rate_limiter"
    /\ max_requests > 1
    /\ semaphore = 0
    /\ Cardinality(PermitHolders) = max_requests
    /\ \E c \in Callers : pc[c] = "sleep"

\* C24: the stored log of tools/rate_limiter.py never holds more than
\* max_requests entries, expired ones included; in particular whenever the
\* lock is free
LogWithinLimit ==
    limiter = "rate_limiter" => Len(requests) <= max_requests

\* a full stored log, its oldest entry expired but not pruned yet, lock free
LogWithinLimitWitness ==
    /\ limiter = "rate_limiter"
    /\ lock = 0
    /\ max_requests > 1
    /\ Len(requests) = max_requests
    /\ requests[1] = time_window
    /\ lastOp = "none"

\* the callers between the start of their rate-limit sleep and their append
Sleepers == {c \in Callers : pc[c] \in {"sleep", "reacquire"}}

\* C25: in tools/rate_limiter.py at most one caller is in the rate-limit
\* sleep at any time, and from the start of a caller's sleep to that caller's
\* own append nobody else appends a stamp
SingleSleeper ==
    /\ [](limiter = "rate_limiter" => Cardinality(Sleepers) <= 1)
    /\ [][ (limiter = "rate_limiter" /\ Sleepers # {} /\ Appended >= 1)
           => \E c \in Sleepers : pc[c] = "reacquire" /\ pc'[c] = "idle" ]_vars

\* a sleeper whose sleep is over, two callers waiting for the lock, the log
\* as it was when the sleep began
SingleSleeperWitness ==
    /\ limiter = "rate_limiter"
    /\ \E c \in Callers : pc[c] = "sleep" /\ wake_in[c] = 0
    /\ Cardinality({c \in Callers : pc[c] = "lock"}) = 2
    /\ Len(requests) = Len(sleepLog)

\* C26: in the limiter of tools/dataforseo_client.py no caller waits for the
\* lock while it holds the lock itself
NoSelfWait ==
    limiter = "dataforseo_client" =>
        \A c \in Callers : ~(pc[c] = "lock" /\ lock = c)


\* ======== DataForSEOClient.make_request (tools/dataforseo_client.py) ========

NumRequesters == 1
MaxRetriesBound == 2

\* the tasks that call make_request
Requesters == {c \in Callers : c <= NumRequesters}

\* settings.max_retries is an unconstrained int (config/settings.py:153-155)
RetrySettings == (0 - 1)..MaxRetriesBound

\* the numbers _handle_response tests
HttpOk == 200
HttpUnauthorized == 401
HttpTooManyRequests == 429
ApiOk == 20000
ApiAuthenticationFailed == 40101
ApiInsufficientCredits == 40102
ApiRateLimited == 40401

\* what an HTTP attempt can come back with: aiohttp raising ClientError or a
\* timeout, or a response with a status, a body that parses as JSON or not,
\* that is a dict or not, and whose "status_code" is absent (0) or a number
Statuses == {HttpOk, HttpUnauthorized, HttpTooManyRequests, 500}
StatusCodes == {0, ApiOk, ApiAuthenticationFailed, ApiInsufficientCredits,
                ApiRateLimited, 50000}
Responses ==
    {r \in [transport : {"ok"}, status : Statuses, json : BOOLEAN, dict : BOOLEAN,
            status_code : StatusCodes] :
        /\ r.status # HttpOk => ~r.json
        /\ ~r.json => ~r.dict
        /\ ~r.dict => r.status_code = 0}
TransportErrors ==
    {[transport |-> t, status |-> 0, json |-> FALSE, dict |-> FALSE,
      status_code |-> 0] : t \in {"ClientError", "TimeoutError"}}

\* _handle_response, lines 116-142: the exception it raises, or "returned"
handle_response(r) ==
    IF r.status = HttpUnauthorized THEN "AuthenticationError"
    ELSE IF r.status = HttpTooManyRequests THEN "RateLimitError"
    ELSE IF r.status # HttpOk THEN "DataForSEOError"
    ELSE IF ~r.json THEN "DataForSEOError"
    ELSE IF r.dict /\ r.status_code = ApiAuthenticationFailed
         THEN "AuthenticationError"
    ELSE IF r.dict /\ r.status_code = ApiInsufficientCredits
         THEN "InsufficientCreditsError"
    ELSE IF r.dict /\ r.status_code = ApiRateLimited THEN "RateLimitError"
    ELSE IF r.dict /\ r.status_code # 0 /\ r.status_code # ApiOk
         THEN "DataForSEOError"
    ELSE "returned"

\* what lines 176-190 raise or return for what the attempt came back with
AttemptResult(r) ==
    IF r.transport = "ok" THEN handle_response(r) ELSE r.transport

\* alternative to Retryable (every error of the API is retried)
RetryableAll(e) == e # "returned" /\ e # "TimeoutError"

\* the two except clauses of lines 192 and 199
Retryable(e) == e \in {"RateLimitError", "ClientError"}

\* alternative to MayRetry (one retry more)
MayRetryOnceMore(k) == k <= max_retries

\* lines 193 and 200
MayRetry(k) == k < max_retries

RECURSIVE Pow2(_)
Pow2(k) == IF k <= 0 THEN 1 ELSE 2 * Pow2(k - 1)

\* lines 194 and 201: wait_time = 2 ** retry_count
BackoffTime(k) == Pow2(k)

\* what the caller of make_request gets when the retries are used up: the
\* RateLimitError again (line 198) or a DataForSEOError (line 205)
Exhausted(e) ==
    IF e = "RateLimitError" THEN "RateLimitError"
    ELSE "DataForSEOError: Network error"

\* a client in or out of its async context manager, over its own limiter
\* (lines 94-97: settings.dataforseo_rate_limit requests per window; the
\* window is one fixed length for every client)
ClientInit ==
    /\ \E m \in 1..MaxRequestsBound :
          Construct("dataforseo_client", m, MaxWindowBound)
    /\ \E r \in RetrySettings, entered \in BOOLEAN : ClientConstruct(r, entered)
    /\ NoEngine
    /\ NoAgent
    /\ NoCoordinator

\* lines 168-172 of a top-level call: without a session RuntimeError, else
\* the call reaches rate_limiter.acquire()
MakeRequestCall(c) ==
    /\ ctor = "constructed"
    /\ limiter = "dataforseo_client"
    /\ mr_pc[c] = "idle"
    /\ pc[c] = "idle"
    /\ retry_count' = [retry_count EXCEPT ![c] = 0]
    /\ attempts' = [attempts EXCEPT ![c] = 0]
    /\ IF ~session
       THEN /\ outcome' = [outcome EXCEPT ![c] = "RuntimeError"]
            /\ UNCHANGED <<limiterVars, mr_pc>>
       ELSE /\ ClientAcquireCallCore(c)
            /\ mr_pc' = [mr_pc EXCEPT ![c] = "acquire"]
            /\ outcome' = [outcome EXCEPT ![c] = "pending"]
    /\ UNCHANGED <<session, max_retries, response, credit, backoff>>
    /\ UNCHANGED <<engineVars, agentVars, coordVars>>

\* alternative to MakeRequestAcquire (the attempt does not wait for acquire())
MakeRequestUngated(c) ==
    /\ mr_pc[c] = "acquire"
    /\ limiter = "dataforseo_client"
    /\ pc[c] = "lock"
    /\ pc' = [pc EXCEPT ![c] = "idle"]
    /\ mr_pc' = [mr_pc EXCEPT ![c] = "http"]
    /\ UNCHANGED <<config, requests, semaphore, lock, wake_in, admitted, sleepLog,
                   eligible, admissions, promised, lastOp, ret>>
    /\ UNCHANGED <<session, max_retries, retry_count, response, attempts, outcome,
                   credit, backoff>>
    /\ UNCHANGED <<engineVars, agentVars, coordVars>>

\* line 172: the locked section of the acquire() the call waits in; when it
\* admits, the call goes on to its HTTP attempt
MakeRequestAcquire(c) ==
    /\ mr_pc[c] = "acquire"
    /\ ClientLockedSectionCore(c)
    /\ IF pc'[c] # "idle"
       THEN UNCHANGED <<mr_pc, outcome, credit, retry_count, attempts>>
       ELSE IF lastOp' = "admit"
       THEN /\ mr_pc' = [mr_pc EXCEPT ![c] = "http"]
            /\ credit' = credit + 1
            /\ UNCHANGED <<outcome, retry_count, attempts>>
       ELSE /\ mr_pc' = [mr_pc EXCEPT ![c] = "idle"]
            /\ outcome' = [outcome EXCEPT ![c] = lastOp']
            /\ retry_count' = [retry_count EXCEPT ![c] = 0]
            /\ attempts' = [attempts EXCEPT ![c] = 0]
            /\ UNCHANGED credit
    /\ UNCHANGED <<session, max_retries, response, backoff>>
    /\ UNCHANGED <<engineVars, agentVars, coordVars>>

\* lines 177-190: session.post() or session.get() sends the request
HttpStart(c) ==
    /\ mr_pc[c] = "http"
    /\ mr_pc' = [mr_pc EXCEPT ![c] = "sent"]
    /\ attempts' = [attempts EXCEPT ![c] = @ + 1]
    /\ credit' = credit - 1
    /\ UNCHANGED <<limiterVars, session, max_retries, retry_count, response, outcome,
                   backoff>>
    /\ UNCHANGED <<engineVars, agentVars, coordVars>>

\* the attempt comes back
HttpResponse(c) ==
    /\ mr_pc[c] = "sent"
    /\ \E r \in Responses \cup TransportErrors :
          response' = [response EXCEPT ![c] = r]
    /\ mr_pc' = [mr_pc EXCEPT ![c] = "handle"]
    /\ UNCHANGED <<limiterVars, session, max_retries, retry_count, attempts, outcome,
                   credit, backoff>>
    /\ UNCHANGED <<engineVars, agentVars, coordVars>>

\* lines 183/190 and 192-205: the response is handled; the call returns the
\* data, or sleeps before it retries, or raises
HandleResponse(c) ==
    /\ mr_pc[c] = "handle"
    /\ LET e == AttemptResult(response[c]) IN
       IF Retryable(e) /\ MayRetry(retry_count[c])
       THEN /\ mr_pc' = [mr_pc EXCEPT ![c] = "backoff"]
            /\ backoff' = [backoff EXCEPT ![c] = BackoffTime(retry_count[c])]
            /\ UNCHANGED <<outcome, retry_count, attempts>>
       ELSE /\ mr_pc' = [mr_pc EXCEPT ![c] = "idle"]
            /\ outcome' = [outcome EXCEPT ![c] =
                              IF Retryable(e) THEN Exhausted(e) ELSE e]
            /\ retry_count' = [retry_count EXCEPT ![c] = 0]
            /\ attempts' = [attempts EXCEPT ![c] = 0]
            /\ UNCHANGED backoff
    /\ response' = [response EXCEPT ![c] = NoResponse]
    /\ UNCHANGED <<limiterVars, session, max_retries, credit>>
    /\ UNCHANGED <<engineVars, agentVars, coordVars>>

\* lines 196-197 / 203-204, then 168-172: the sleep is over and make_request
\* calls itself with retry_count + 1, which reaches acquire() again
BackoffDone(c) ==
    /\ mr_pc[c] = "backoff"
    /\ backoff[c] = 0
    /\ ClientAcquireCallCore(c)
    /\ mr_pc' = [mr_pc EXCEPT ![c] = "acquire"]
    /\ retry_count' = [retry_count EXCEPT ![c] = @ + 1]
    /\ UNCHANGED <<session, max_retries, response, attempts, outcome, credit, backoff>>
    /\ UNCHANGED <<engineVars, agentVars, coordVars>>

ClientStep ==
    \/ Tick
    \/ \E c \in Requesters : MakeRequestCall(c)
    \/ \E c \in Requesters : MakeRequestAcquire(c)
    \/ \E c \in Requesters : ClientSleepDone(c)
    \/ \E c \in Requesters : HttpStart(c)
    \/ \E c \in Requesters : HttpResponse(c)
    \/ \E c \in Requesters : HandleResponse(c)
    \/ \E c \in Requesters : BackoffDone(c)

\* tasks calling make_request on one client, and the clock
ClientSpec == ClientInit /\ [][ClientStep]_vars

\* C27: every HTTP attempt of make_request, retries included, comes after an
\* acquire() of its own that admitted: at every instant the attempts started
\* are no more than the admitted acquire() calls, and a call is at its attempt
\* only with an admission not yet used
AttemptsGated ==
    /\ credit >= 0
    /\ credit = Cardinality({c \in Callers : mr_pc[c] = "http"})

AttemptsGatedWitness ==
    \E c \in Requesters :
        /\ mr_pc[c] = "sent"
        /\ retry_count[c] > 0
        /\ attempts[c] = retry_count[c] + 1
        /\ Len(requests) = attempts[c]
        /\ credit = 0


\* the responses _handle_response turns into RateLimitError: HTTP 429, or a
\* JSON object whose status_code is 40401
RateLimited(r) ==
    /\ r.transport = "ok"
    /\ \/ r.status = HttpTooManyRequests
       \/ /\ r.status = HttpOk
          /\ r.json
          /\ r.dict
          /\ r.status_code = ApiRateLimited

NetworkFailed(r) == r.transport = "ClientError"

\* the call of c handles the outcome of an attempt in this step
Handles(c) == mr_pc[c] = "handle" /\ mr_pc'[c] # "handle"

\* the retry discipline of make_request, raising at the attempts last(k)
RetryDiscipline(last(_)) ==
    \A c \in Callers :
            /\ (Handles(c) /\ (RateLimited(response[c]) \/ NetworkFailed(response[c])))
               => /\ retry_count[c] < max_retries
                     => /\ mr_pc'[c] = "backoff"
                        /\ backoff'[c] = 2 ^ retry_count[c]
                  /\ last(retry_count[c])
                     => /\ mr_pc'[c] = "idle"
                        /\ outcome'[c] = IF RateLimited(response[c])
                                         THEN "RateLimitError"
                                         ELSE "DataForSEOError: Network error"
            /\ (mr_pc[c] = "backoff" /\ mr_pc'[c] # "backoff")
               => /\ backoff[c] = 0
                  /\ mr_pc'[c] = "acquire"
                  /\ retry_count'[c] = retry_count[c] + 1
                  /\ attempts'[c] = attempts[c]

LastAttempt(k) == k = max_retries
LastOrBeyond(k) == k >= max_retries

AuthenticationFailed(r) ==
    /\ r.transport = "ok"
    /\ \/ r.status = HttpUnauthorized
       \/ /\ r.status = HttpOk
          /\ r.json
          /\ r.dict
          /\ r.status_code = ApiAuthenticationFailed

CreditsExhausted(r) ==
    /\ r.transport = "ok"
    /\ r.status = HttpOk
    /\ r.json
    /\ r.dict
    /\ r.status_code = ApiInsufficientCredits

GenericFailure(r) ==
    /\ r.transport = "ok"
    /\ \/ r.status \notin {HttpOk, HttpUnauthorized, HttpTooManyRequests}
       \/ /\ r.status = HttpOk
          /\ r.json
          /\ r.dict
          /\ r.status_code \notin {0, ApiOk, ApiAuthenticationFailed,
                                   ApiInsufficientCredits, ApiRateLimited}

NonRetryableError(r) ==
    IF AuthenticationFailed(r) THEN "AuthenticationError"
    ELSE IF CreditsExhausted(r) THEN "InsufficientCreditsError"
    ELSE IF GenericFailure(r) THEN "DataForSEOError"
    ELSE "none"

\* C29: a response that maps to AuthenticationError, InsufficientCreditsError
\* or a generic DataForSEOError ends the call at once with that error, with
\* no wait and no further attempt (one attempt in all when it is the answer to
\* the first); a call goes on to a retry only after HTTP 429, status_code
\* 40401 or aiohttp.ClientError
NonRetryablePropagates ==
    [][\A c \in Callers :
          Handles(c) =>
              /\ NonRetryableError(response[c]) # "none"
                 => /\ mr_pc'[c] = "idle"
                    /\ outcome'[c] = NonRetryableError(response[c])
                    /\ credit' = credit
                    /\ pc'[c] = "idle"
                    /\ retry_count[c] = 0 => attempts[c] = 1
              /\ mr_pc'[c] = "backoff"
                 => RateLimited(response[c]) \/ NetworkFailed(response[c])
      ]_vars

NonRetryableWitness ==
    \E c \in Requesters :
        /\ max_retries = MaxRetriesBound
        /\ mr_pc[c] = "idle"
        /\ outcome[c] = "InsufficientCreditsError"
        /\ requests = <<0>>
        /\ admitted = <<0>>


\* ======== WorkflowEngine (workflows/workflow_engine.py) ========

MaxClock == 2
MaxSteps == 2

\* no limiter in the behaviour
NoLimiter == Construct("none", 0, 0)

\* an engine just constructed; config["max_retries"] is whatever the caller
\* put there (line 94)
EngineInit ==
    /\ NoLimiter
    /\ NoClient
    /\ \E r \in RetrySettings : EngineConstruct("constructed", r)
    /\ NoAgent
    /\ NoCoordinator

NoControl == [op |-> "none", ret |-> FALSE]

\* self.progress: a WorkflowProgress, or None while total_steps = None
progressVars == <<total_steps, completed_steps, progress_percentage>>

\* what _mark_completed and _mark_failed assign, and what execute() returns
marks == <<status, completed_at, final_result, returned>>

\* what execute() leaves alone outside the engine
EngineFrame ==
    UNCHANGED <<limiterVars, requestVars, backoff, agentVars, coordVars, engine,
                wf_max_retries>>

\* the clock advances
EngineTick ==
    /\ engine = "constructed"
    /\ now < MaxClock
    /\ now' = now + 1
    /\ control' = NoControl
    /\ EngineFrame
    /\ UNCHANGED <<marks, started_at, wf_pc, wf_retry_count, impl_calls, steps_run,
                   progressVars>>

\* alternative to mark_completed (the stored result is not the returned one)
mark_completed_unstored(result) ==
    /\ status' = "COMPLETED"
    /\ completed_at' = now
    /\ returned' = result
    /\ UNCHANGED final_result

\* _mark_completed, lines 243-252: returns the result it stores
mark_completed(result) ==
    /\ status' = "COMPLETED"
    /\ completed_at' = now
    /\ final_result' = result
    /\ returned' = result

\* _mark_failed, lines 254-268: returns the failure result it builds and stores
mark_failed(message) ==
    /\ status' = "FAILED"
    /\ completed_at' = now
    /\ final_result' = [success |-> FALSE, why |-> message]
    /\ returned' = [success |-> FALSE, why |-> message]

\* lines 100-105: execute() stamps started_at, sets RUNNING and awaits
\* validate_parameters
ExecuteCall ==
    /\ engine = "constructed"
    /\ wf_pc = "idle"
    /\ started_at' = now
    /\ status' = "RUNNING"
    /\ wf_pc' = "validate"
    /\ returned' = NoResult
    /\ control' = NoControl
    /\ EngineFrame
    /\ UNCHANGED <<now, completed_at, final_result, wf_retry_count, impl_calls,
                   steps_run, progressVars>>

\* _execute_workflow_impl is left: its locals are gone
ImplLeft ==
    /\ wf_pc' = "idle"
    /\ wf_retry_count' = 0
    /\ impl_calls' = 0
    /\ steps_run' = 0

\* alternative to LoopTest (one round more)
LoopTestOnceMore(k) == k <= wf_max_retries + 1

\* lines 145 and 153: retry_count <= self.max_retries
LoopTest(k) == k <= wf_max_retries

\* the loop test of line 145, reached with retry count k after calls
\* invocations of execute_workflow: execute_workflow is awaited once more, or
\* line 163 raises into the except clause of line 132
ImplLoop(k, calls) ==
    IF LoopTest(k)
    THEN /\ wf_pc' = "impl"
         /\ wf_retry_count' = k
         /\ impl_calls' = calls + 1
         /\ steps_run' = 0
         /\ UNCHANGED marks
    ELSE /\ ImplLeft
         /\ mark_failed("exception")

\* lines 105-107 and 132-135: validate_parameters returns or raises
ValidateDone ==
    /\ wf_pc = "validate"
    /\ \E v \in {"valid", "invalid", "raises"} :
          IF v = "valid"
          THEN /\ wf_pc' = "steps"
               /\ UNCHANGED marks
          ELSE /\ wf_pc' = "idle"
               /\ mark_failed(IF v = "invalid" THEN "validation" ELSE "exception")
    /\ control' = NoControl
    /\ EngineFrame
    /\ UNCHANGED <<now, started_at, wf_retry_count, impl_calls, steps_run,
                   progressVars>>

\* lines 110-121 then 143-147: get_workflow_steps returns n steps or raises;
\* the progress is created and _execute_workflow_impl starts under wait_for
StepsDone ==
    /\ wf_pc = "steps"
    /\ \/ /\ \E n \in 0..MaxSteps : total_steps' = n
          /\ completed_steps' = 0
          /\ progress_percentage' = 0
          /\ ImplLoop(0, 0)
       \/ /\ wf_pc' = "idle"
          /\ mark_failed("exception")
          /\ UNCHANGED <<wf_retry_count, impl_calls, steps_run, progressVars>>
    /\ control' = NoControl
    /\ EngineFrame
    /\ UNCHANGED <<now, started_at>>

\* update_progress, lines 63-65
NextCompleted(ok) == IF ok THEN completed_steps + 1 ELSE completed_steps

\* lines 270-320 with 61-66: execute_workflow runs its next step through
\* execute_step, which catches the step's exception and updates the progress
ExecuteStep ==
    /\ wf_pc = "impl"
    /\ steps_run < total_steps
    /\ steps_run' = steps_run + 1
    /\ \E ok \in BOOLEAN :
          /\ completed_steps' = NextCompleted(ok)
          /\ progress_percentage' = (NextCompleted(ok) * 100) \div total_steps
    /\ control' = NoControl
    /\ EngineFrame
    /\ UNCHANGED <<marks, now, started_at, wf_pc, wf_retry_count, impl_calls,
                   total_steps>>

\* lines 147-158 and 124, 132-135: execute_workflow returns its result, which
\* execute() marks completed, or raises: a retry after a sleep, or the
\* exception leaves the loop and execute() marks the failure
ImplDone ==
    /\ wf_pc = "impl"
    /\ \E r \in {"success", "failure", "raises"} :
          IF r # "raises"
          THEN /\ ImplLeft
               /\ mark_completed([success |-> r = "success", why |-> "workflow"])
          ELSE IF LoopTest(wf_retry_count + 1)
          THEN /\ wf_pc' = "retry_sleep"
               /\ wf_retry_count' = wf_retry_count + 1
               /\ UNCHANGED <<marks, impl_calls, steps_run>>
          ELSE /\ ImplLeft
               /\ mark_failed("exception")
    /\ control' = NoControl
    /\ EngineFrame
    /\ UNCHANGED <<now, started_at, progressVars>>

\* line 156 then 145: the sleep of retry_delay is over
RetrySleepDone ==
    /\ wf_pc = "retry_sleep"
    /\ ImplLoop(wf_retry_count, impl_calls)
    /\ control' = NoControl
    /\ EngineFrame
    /\ UNCHANGED <<now, started_at, progressVars>>

\* lines 126-129: wait_for gives up on _execute_workflow_impl
Timeout ==
    /\ wf_pc \in {"impl", "retry_sleep"}
    /\ ImplLeft
    /\ mark_failed("timeout")
    /\ control' = NoControl
    /\ EngineFrame
    /\ UNCHANGED <<now, started_at, progressVars>>

\* alternative to Pausable (a pending workflow can be paused too)
PausableEarly == status \in {"PENDING", "RUNNING"}

\* line 191
Pausable == status = "RUNNING"

\* line 199
Resumable == status = "PAUSED"

\* line 207
Cancellable == status \in {"RUNNING", "PAUSED"}

\* what a control operation leaves alone
ControlFrame ==
    /\ EngineFrame
    /\ UNCHANGED <<now, started_at, final_result, returned, wf_pc, wf_retry_count,
                   impl_calls, steps_run, progressVars>>

\* lines 189-195
pause ==
    /\ engine = "constructed"
    /\ IF Pausable
       THEN /\ status' = "PAUSED"
            /\ control' = [op |-> "pause", ret |-> TRUE]
       ELSE /\ control' = [op |-> "pause", ret |-> FALSE]
            /\ UNCHANGED status
    /\ ControlFrame
    /\ UNCHANGED completed_at

\* lines 197-203
resume ==
    /\ engine = "constructed"
    /\ IF Resumable
       THEN /\ status' = "RUNNING"
            /\ control' = [op |-> "resume", ret |-> TRUE]
       ELSE /\ control' = [op |-> "resume", ret |-> FALSE]
            /\ UNCHANGED status
    /\ ControlFrame
    /\ UNCHANGED completed_at

\* lines 205-212
cancel ==
    /\ engine = "constructed"
    /\ IF Cancellable
       THEN /\ status' = "CANCELLED"
            /\ completed_at' = now
            /\ control' = [op |-> "cancel", ret |-> TRUE]
       ELSE /\ control' = [op |-> "cancel", ret |-> FALSE]
            /\ UNCHANGED <<status, completed_at>>
    /\ ControlFrame

EngineStep ==
    \/ EngineTick
    \/ ExecuteCall
    \/ ValidateDone
    \/ StepsDone
    \/ ImplDone
    \/ RetrySleepDone
    \/ Timeout
    \/ pause
    \/ resume
    \/ cancel

\* one engine whose execute_workflow is any subclass code: execute() calls one
\* after the other, control operations at any time, and the clock
EngineSpec == EngineInit /\ [][EngineStep]_vars

\* every await of execute() comes back: validate_parameters and
\* get_workflow_steps return or raise, the retry sleep ends, and
\* execute_workflow returns or raises unless wait_for times it out first
EngineFairness ==
    /\ WF_vars(ValidateDone)
    /\ WF_vars(StepsDone)
    /\ WF_vars(ImplDone)
    /\ WF_vars(RetrySleepDone)

EngineLiveSpec == EngineInit /\ [][EngineStep]_vars /\ EngineFairness

ProgressStep ==
    \/ ExecuteCall
    \/ ValidateDone
    \/ StepsDone
    \/ ExecuteStep
    \/ ImplDone
    \/ RetrySleepDone
    \/ Timeout

\* one engine whose execute_workflow runs the steps of get_workflow_steps
\* through execute_step, as the workflows of this package do
ProgressSpec == EngineInit /\ [][ProgressStep]_vars

\* C30: pause() succeeds only from RUNNING (to PAUSED), resume() only from
\* PAUSED (to RUNNING), cancel() only from RUNNING or PAUSED (to CANCELLED,
\* stamping completed_at); from any other status each returns False and leaves
\* status and completed_at as they were
ControlEdges ==
    [][ /\ control'.op = "pause"
           => IF status = "RUNNING"
              THEN status' = "PAUSED" /\ control'.ret /\ completed_at' = completed_at
              ELSE ~control'.ret /\ status' = status /\ completed_at' = completed_at
        /\ control'.op = "resume"
           => IF status = "PAUSED"
              THEN status' = "RUNNING" /\ control'.ret /\ completed_at' = completed_at
              ELSE ~control'.ret /\ status' = status /\ completed_at' = completed_at
        /\ control'.op = "cancel"
           => IF status \in {"RUNNING", "PAUSED"}
              THEN status' = "CANCELLED" /\ control'.ret /\ completed_at' = now
              ELSE ~control'.ret /\ status' = status /\ completed_at' = completed_at
      ]_vars

ControlEdgesWitness ==
    /\ control = [op |-> "cancel", ret |-> FALSE]
    /\ status = "COMPLETED"
    /\ completed_at # None
    /\ completed_at < now
    /\ wf_pc = "idle"


\* C31: CANCELLED is terminal: once cancel() has returned True the status
\* stays CANCELLED in every later state, also when the execute() that was in
\* flight goes on to finish, time out or fail
CancelledIsTerminal ==
    [][status = "CANCELLED" => status' = "CANCELLED"]_vars


\* execute() returns in this step
ExecuteReturns == wf_pc # "idle" /\ wf_pc' = "idle"

\* C32: execute() always ends in a definite outcome: it returns an
\* ExecutionResult (it raises for none of validation failure, timeout or an
\* exception of the workflow), and on return the status is COMPLETED when
\* execute_workflow returned a result and FAILED otherwise, with completed_at
\* stamped and final_result the returned result; and every execute() returns
DefiniteOutcome ==
    /\ [][ExecuteReturns =>
            /\ returned' # NoResult
            /\ final_result' = returned'
            /\ completed_at' = now
            /\ status' = IF returned'.why = "workflow" THEN "COMPLETED" ELSE "FAILED"
            /\ returned'.why \in {"validation", "timeout", "exception"}
               => ~returned'.success
            /\ returned'.why = "workflow" => wf_pc = "impl"
            /\ returned'.why = "validation" => wf_pc = "validate"
            /\ returned'.why = "timeout" => wf_pc \in {"impl", "retry_sleep"}
       ]_vars
    /\ (wf_pc # "idle") ~> (wf_pc = "idle")

DefiniteOutcomeWitness ==
    /\ wf_pc = "idle"
    /\ status = "FAILED"
    /\ returned = [success |-> FALSE, why |-> "timeout"]
    /\ final_result = returned
    /\ completed_at = MaxClock
    /\ started_at < completed_at


\* C33: _execute_workflow_impl invokes execute_workflow at most
\* max_retries + 1 times: an invocation that returns a result ends the loop
\* with that result, every further invocation comes right after the sleep that
\* follows an exception, and the exception is raised on only after
\* max_retries + 1 invocations have raised
ImplRetriesBounded ==
    /\ [](/\ impl_calls <= wf_max_retries + 1
          /\ wf_pc = "impl" => impl_calls = wf_retry_count + 1
          /\ wf_pc = "retry_sleep" => impl_calls = wf_retry_count)
    /\ [][ /\ (wf_pc = "impl" /\ wf_pc' = "idle" /\ returned'.why = "exception")
              => impl_calls = wf_max_retries + 1
           /\ (wf_pc = "impl" /\ wf_pc' = "retry_sleep")
              => impl_calls <= wf_max_retries
           /\ (wf_pc = "impl" /\ wf_pc' = "impl") => impl_calls' = impl_calls
           /\ (impl_calls' > impl_calls /\ impl_calls > 0) => wf_pc = "retry_sleep"
         ]_vars

ImplRetriesWitness ==
    /\ wf_max_retries = MaxRetriesBound
    /\ wf_pc = "impl"
    /\ impl_calls = wf_max_retries + 1
    /\ status = "RUNNING"


\* C34: the progress of a workflow stays in range over any execution,
\* retries of execute_workflow included: completed_steps <= total_steps and
\* progress_percentage within 0..100
ProgressInRange ==
    total_steps # None =>
        /\ completed_steps <= total_steps
        /\ progress_percentage >= 0
        /\ progress_percentage <= 100


\* ======== BaseSEOAgent.execute_task (agents/base.py) ========

\* an agent that supports the type of the task or not, and a new task
AgentInit ==
    /\ NoLimiter
    /\ NoClient
    /\ NoEngine
    /\ NoCoordinator
    /\ \E types \in BOOLEAN : AgentConstruct("constructed", types)

AgentFrame ==
    UNCHANGED <<limiterVars, requestVars, backoff, engineVars, coordVars, agent,
                supported>>

\* the clock advances
AgentTick ==
    /\ agent = "constructed"
    /\ task_clock < MaxClock
    /\ task_clock' = task_clock + 1
    /\ AgentFrame
    /\ UNCHANGED <<task_status, task_started_at, task_completed_at, task_result,
                   et_pc, et_start_time, et_returned>>

\* validate_task, lines 102-108: the agent supports every type or this one
validate_task == supported

\* SEOTask.mark_started, models/base.py:125-128
mark_started ==
    /\ task_status' = "RUNNING"
    /\ task_started_at' = task_clock

\* alternative to task_mark_failed (the task is marked completed)
task_mark_failed_as_completed(result) ==
    /\ task_status' = "COMPLETED"
    /\ task_completed_at' = task_clock
    /\ task_result' = result

\* SEOTask.mark_completed, models/base.py:130-134
task_mark_completed(result) ==
    /\ task_status' = "COMPLETED"
    /\ task_completed_at' = task_clock
    /\ task_result' = result

\* SEOTask.mark_failed, models/base.py:136-140
task_mark_failed(result) ==
    /\ task_status' = "FAILED"
    /\ task_completed_at' = task_clock
    /\ task_result' = result

\* lines 36-52: execute_task() validates the task (validate_task has no
\* await); a rejected task gets a failure result and is not touched, an
\* accepted one is marked started and _execute_task_impl is awaited
ExecuteTaskCall ==
    /\ agent = "constructed"
    /\ et_pc = "idle"
    /\ IF validate_task
       THEN /\ mark_started
            /\ et_pc' = "impl"
            /\ et_start_time' = task_clock
            /\ et_returned' = NoTaskResult
            /\ UNCHANGED <<task_completed_at, task_result>>
       ELSE /\ et_returned' = [success |-> FALSE, why |-> "validation",
                               execution_time |-> None]
            /\ UNCHANGED <<et_pc, et_start_time, task_status, task_started_at,
                           task_completed_at, task_result>>
    /\ AgentFrame
    /\ UNCHANGED task_clock

\* lines 52-95: _execute_task_impl returns a result, which marks the task
\* completed or failed by its success flag, or raises TimeoutError or another
\* exception, which marks the task failed with a failure result
ExecuteTaskDone ==
    /\ et_pc = "impl"
    /\ et_pc' = "idle"
    /\ \E r \in {"success", "failure", "timeout", "exception"} :
          LET result == [success |-> r = "success",
                         why |-> IF r \in {"success", "failure"} THEN "impl" ELSE r,
                         execution_time |-> task_clock - et_start_time]
          IN /\ et_returned' = result
             /\ IF result.success
                THEN task_mark_completed(result)
                ELSE task_mark_failed(result)
    /\ et_start_time' = 0
    /\ AgentFrame
    /\ UNCHANGED <<task_clock, task_started_at>>

AgentStep ==
    \/ AgentTick
    \/ ExecuteTaskCall
    \/ ExecuteTaskDone

\* one agent executing one task, again after it has ended, and the clock
AgentSpec == AgentInit /\ [][AgentStep]_vars

taskVars == <<task_status, task_started_at, task_completed_at, task_result>>

\* C35: a task that validate_task rejects gets a failure result and keeps its
\* status, stamps and result; an accepted task becomes RUNNING, and when the
\* implementation ends it becomes COMPLETED exactly when the returned result
\* has success = True and FAILED otherwise (success = False, an exception, a
\* timeout), with task.result the returned result
TaskStatusMachine ==
    /\ [](et_pc = "impl" => task_status = "RUNNING")
    /\ [][ /\ (et_pc = "idle" /\ et_returned' # et_returned /\ et_pc' = "idle")
              => /\ ~supported
                 /\ ~et_returned'.success
                 /\ taskVars' = taskVars
           /\ (et_pc = "idle" /\ et_pc' = "impl")
              => /\ supported
                 /\ task_status' = "RUNNING"
                 /\ task_started_at' = task_clock
           /\ (et_pc = "impl" /\ et_pc' = "idle")
              => /\ task_status' = IF et_returned'.success THEN "COMPLETED"
                                   ELSE "FAILED"
                 /\ et_returned'.why \in {"timeout", "exception"}
                    => ~et_returned'.success
                 /\ task_result' = et_returned'
                 /\ et_returned'.execution_time = task_clock - task_started_at
                 /\ task_completed_at' = task_clock
           /\ task_status' # task_status
              => <<task_status, task_status'>> \in
                    {<<"PENDING", "RUNNING">>, <<"RUNNING", "COMPLETED">>,
                     <<"RUNNING", "FAILED">>, <<"COMPLETED", "RUNNING">>,
                     <<"FAILED", "RUNNING">>}
         ]_vars

TaskStatusWitness ==
    /\ supported
    /\ et_pc = "idle"
    /\ task_status = "FAILED"
    /\ task_result.why = "timeout"
    /\ task_result.execution_time > 0
    /\ et_returned = task_result
    /\ task_started_at < task_completed_at



\* ======== AgentCoordinator (agents/agent_coordinator.py) ========

\* a coordinator after initialize(), json.dumps accepting the dumps or not
CoordInit ==
    /\ NoLimiter
    /\ NoClient
    /\ NoEngine
    /\ NoAgent
    /\ \E dumps \in BOOLEAN : CoordConstruct("constructed", dumps)

CoordFrame ==
    UNCHANGED <<limiterVars, requestVars, backoff, engineVars, agentVars,
                coordinator, encodable>>

\* TaskQueue.enqueue_task, lines 224-253, as the queue after it: the entry is
\* added under its priority
enqueue_task(queue, w, type, priority) ==
    queue \cup {[workflow_id |-> w, task_type |-> type, priority |-> priority]}

\* run_task_processor, lines 582-584, up to the loop
RunTaskProcessor ==
    /\ coordinator = "constructed"
    /\ ~running
    /\ running' = TRUE
    /\ CoordFrame
    /\ UNCHANGED <<active_workflows, results, processing_tasks, task_queue, channel,
                   current_task>>

\* create_seo_audit_workflow, lines 416-510: the workflow is registered with its
\* four tasks and no result, and tasks[0] is enqueued with priority 5; when
\* json.dumps refuses the dump, enqueue_task raises and nothing is enqueued
create_seo_audit_workflow(w) ==
    /\ coordinator = "constructed"
    /\ w \notin active_workflows
    /\ active_workflows' = active_workflows \cup {w}
    /\ results' = [results EXCEPT ![w] = {}]
    /\ task_queue' = IF encodable
                     THEN enqueue_task(task_queue, w, CollectionTasks[1], 5)
                     ELSE task_queue
    /\ CoordFrame
    /\ UNCHANGED <<running, processing_tasks, channel, current_task>>

\* TaskQueue.dequeue_task, lines 255-283: bzpopmin takes an entry of the lowest
\* score, which is the highest priority
Dequeuable(entry) ==
    /\ entry \in task_queue
    /\ \A other \in task_queue : other.priority <= entry.priority

\* run_task_processor, lines 586-592: the loop takes the next task
DequeueTask ==
    /\ coordinator = "constructed"
    /\ running
    /\ current_task = NoTask
    /\ \E entry \in task_queue :
          /\ Dequeuable(entry)
          /\ task_queue' = task_queue \ {entry}
          /\ current_task' = [workflow_id |-> entry.workflow_id,
                              task_type |-> entry.task_type]
    /\ CoordFrame
    /\ UNCHANGED <<running, active_workflows, results, processing_tasks, channel>>

\* get_supported_task_types of the collector and of the processor
CollectorTypes ==
    {"keyword_research", "serp_analysis", "ranking_data", "competitor_analysis"}

ProcessorTypes ==
    {"data_analysis", "pattern_recognition", "recommendation_generation",
     "report_compilation"}

\* _process_task, lines 602-641: the agent of the task's type executes it, the
\* execution ends with a result, and the completion message is published; a
\* type no agent supports gives a failure result; when json.dumps refuses the
\* message, publish raises and _process_task logs the error
ProcessTask ==
    /\ coordinator = "constructed"
    /\ current_task # NoTask
    /\ \E success \in BOOLEAN :
          /\ current_task.task_type \notin (CollectorTypes \cup ProcessorTypes)
                => ~success
          /\ channel' = IF encodable
                        THEN Append(channel,
                                    [workflow_id |-> current_task.workflow_id,
                                     task_id |-> current_task.task_type,
                                     success |-> success])
                        ELSE channel
    /\ current_task' = NoTask
    /\ CoordFrame
    /\ UNCHANGED <<running, active_workflows, results, processing_tasks, task_queue>>

\* workflow["results"][completed_task_id] = result, line 525
StoreResult(held, task_id, success) ==
    {pair \in held : pair[1] # task_id} \cup {<<task_id, success>>}

\* _start_processing_phase, lines 532-580: the two processing tasks are enqueued
\* with priority 4 and the workflow records them; when json.dumps refuses the
\* dump the first enqueue_task raises
StartProcessingPhase(w) ==
    IF encodable
    THEN /\ task_queue' = enqueue_task(enqueue_task(task_queue, w,
                                                    ProcessingTasks[1], 4),
                                       w, ProcessingTasks[2], 4)
         /\ processing_tasks' = processing_tasks \cup {w}
    ELSE UNCHANGED <<task_queue, processing_tasks>>

\* MessageBus._handle_message (lines 162-180) hands the next message to
\* _handle_task_completion (lines 367-382), which calls _advance_workflow (lines
\* 512-530) for a workflow that is active: the result is stored, and the
\* processing phase starts when there are as many results as tasks
HandleTaskCompletion ==
    /\ coordinator = "constructed"
    /\ channel # <<>>
    /\ LET message == Head(channel)
           w == message.workflow_id
           stored == StoreResult(results[w], message.task_id, message.success)
       IN  /\ channel' = Tail(channel)
           /\ IF w \in active_workflows
              THEN /\ results' = [results EXCEPT ![w] = stored]
                   /\ IF Cardinality(stored) = Len(CollectionTasks)
                      THEN StartProcessingPhase(w)
                      ELSE UNCHANGED <<task_queue, processing_tasks>>
              ELSE UNCHANGED <<results, task_queue, processing_tasks>>
    /\ CoordFrame
    /\ UNCHANGED <<running, active_workflows, current_task>>

CoordStep ==
    \/ RunTaskProcessor
    \/ \E w \in Workflows : create_seo_audit_workflow(w)
    \/ DequeueTask
    \/ ProcessTask
    \/ HandleTaskCompletion

\* the task processor runs, every execution ends and every message is delivered
CoordFairness ==
    /\ WF_vars(RunTaskProcessor)
    /\ WF_vars(DequeueTask)
    /\ WF_vars(ProcessTask)
    /\ WF_vars(HandleTaskCompletion)

CoordSpec == CoordInit /\ [][CoordStep]_vars /\ CoordFairness

\* the tasks of workflow w that _advance_workflow holds a result for
ResultsHeld(w) == {pair[1] : pair \in results[w]}

\* C36: every workflow that create_seo_audit_workflow registered eventually
\* holds a result for each of its four collection tasks and has its processing
\* phase started
WorkflowProgresses ==
    \A w \in Workflows :
        (w \in active_workflows)
            ~> (/\ \A i \in 1..Len(CollectionTasks) : CollectionTasks[i] \in ResultsHeld(w)
                /\ w \in processing_tasks)

=============================================================================
